---- MODULE Spec2Model ----
(***************************************************************************)
(* Model of the NNPOM ordinal-regression classifier                        *)
(* (src/classifiers/NNPOM.py): the fitted state kept on the estimator, the *)
(* public operations fit / predict / setters, and the private helpers      *)
(* __unpackParameters, __randInitializeWeights, __convertThresholds and    *)
(* __nnPOMCostFunction.                                                    *)
(*                                                                         *)
(* numpy arrays are records [shape, data]: data is the row-major (C order) *)
(* sequence of the elements, shape is <<n>> or <<rows, cols>>.  Reals are  *)
(* represented by small integers.  A raised Python exception is the record *)
(* [raise |-> <exception class>, line |-> <source line>].                  *)
(***************************************************************************)
EXTENDS Integers, Sequences, FiniteSets, TLC

VARIABLES
    hiddenN,      \* self.__hiddenN
    attrs,        \* which of the five fitted attributes exist on self
    theta1,       \* self.__theta1     (NoArray until assigned)
    theta2,       \* self.__theta2
    thresholds,   \* self.__thresholds
    num_labels,   \* self.__num_labels
    m,            \* self.__m
    pc,           \* "idle" | "opt" (inside fmin_lbfgs, line 132)
    frame,        \* locals of the running fit call
    result,       \* outcome of the last finished public call
    again,        \* history: outcome of the call before it, when both are
                  \* predict calls with the same argument
    sets,         \* number of setter calls made so far
    optCalls,     \* history: fmin_lbfgs invocations of the current/last fit
    codec,        \* harness of the Parameter Codec round trip
    tt,           \* harness of the Threshold Transform
    fw,           \* harness of the Forward Model
    cs,           \* harness of the Cost & Gradient Engine
    gs            \* harness of Utilities._check_params / _get_optimal_estimator

vars == <<hiddenN, attrs, theta1, theta2, thresholds, num_labels, m, pc, frame,
          result, again, sets, optCalls, codec, tt, fw, cs, gs>>

modelVars == <<hiddenN, attrs, theta1, theta2, thresholds, num_labels, m, pc, frame,
               result, again, sets, optCalls>>

----------------------------------------------------------------------------
(* Bounds *)

MaxH == 2           \* hidden widths 1..MaxH
MaxD == 2           \* input widths 1..MaxD
MaxRows == 2        \* rows of X: 1..MaxRows
MaxLen == 3         \* length of y: 1..MaxLen
MaxLabel == 3       \* label values 1..MaxLabel
MaxSets == 1        \* setter calls per behaviour
MaxEvals == 1       \* objective evaluations per optimizer run
MaxSlope == 1       \* vectors of the optimizer: i |-> 1 + slope * (i - 3)
MaxT == 2           \* raw threshold parameters range over -MaxT..MaxT
MaxK == 4           \* class counts of the Threshold Transform harness
MaxCodecVal == 1    \* tensor entries of the codec harness: 0..MaxCodecVal

----------------------------------------------------------------------------
(* numpy helpers *)

\* placeholder of an array attribute that does not exist
NoArray == [shape |-> <<0, 0>>, data |-> <<>>]
None == [none |-> TRUE]

Raise(exc, line) == [raise |-> exc, line |-> line]
IsRaise(r) == "raise" \in DOMAIN r

Max2(a, b) == IF a >= b THEN a ELSE b

\* np.ones((r, c))
Ones(r, c) == [shape |-> <<r, c>>, data |-> [i \in 1..(r * c) |-> 1]]

\* A[i, j] with 1-based i, j on a 2-d array
At(A, i, j) == A.data[(i - 1) * A.shape[2] + j]

\* A.flatten(order='F'): column-major walk of a 2-d array
FlattenF(A) ==
    LET r == A.shape[1]
        c == A.shape[2]
    IN [k \in 1..(r * c) |-> At(A, ((k - 1) % r) + 1, ((k - 1) \div r) + 1)]

\* v[lo:hi] on a sequence (0-based, end-exclusive, clamped as numpy does)
Slice(v, lo, hi) ==
    LET l == IF lo > Len(v) THEN Len(v) ELSE lo
        h == IF hi > Len(v) THEN Len(v) ELSE hi
    IN IF h <= l THEN <<>> ELSE SubSeq(v, l + 1, h)

\* np.reshape(v, (r, c)): default order='C'; ValueError when sizes differ
Reshape(v, r, c, line) ==
    IF Len(v) # r * c THEN Raise("ValueError", line)
    ELSE [shape |-> <<r, c>>, data |-> v]

----------------------------------------------------------------------------
(* Private helpers of NNPOM *)

RECURSIVE SumTo(_, _)
\* sum of f[1..n]
SumTo(f, n) == IF n = 0 THEN 0 ELSE f[n] + SumTo(f, n - 1)

\* __unpackParameters with the third slice ended after nlabels - 1 entries
unpackParametersBounded(nn_params, input_layer_size, hidden_layer_size, nlabels) ==
    LET nTheta1 == hidden_layer_size * (input_layer_size + 1)
        Theta1 == Reshape(Slice(nn_params, 0, nTheta1),
                          hidden_layer_size, input_layer_size + 1, 471)
        nTheta2 == hidden_layer_size
        Theta2 == Reshape(Slice(nn_params, nTheta1, nTheta1 + nTheta2),
                          1, hidden_layer_size, 475)
        thresholds_param == Reshape(Slice(nn_params, nTheta1 + nTheta2,
                                          nTheta1 + nTheta2 + nlabels - 1),
                                    nlabels - 1, 1, 478)
    IN IF IsRaise(Theta1) THEN Theta1
       ELSE IF IsRaise(Theta2) THEN Theta2
       ELSE IF IsRaise(thresholds_param) THEN thresholds_param
       ELSE [Theta1 |-> Theta1, Theta2 |-> Theta2,
             thresholds_param |-> thresholds_param]

\* __unpackParameters: slices of the flat vector reshaped in C order
unpackParameters(nn_params, input_layer_size, hidden_layer_size, nlabels) ==
    LET nTheta1 == hidden_layer_size * (input_layer_size + 1)
        Theta1 == Reshape(Slice(nn_params, 0, nTheta1),
                          hidden_layer_size, input_layer_size + 1, 471)
        nTheta2 == hidden_layer_size
        Theta2 == Reshape(Slice(nn_params, nTheta1, nTheta1 + nTheta2),
                          1, hidden_layer_size, 475)
        thresholds_param == Reshape(Slice(nn_params, nTheta1 + nTheta2, Len(nn_params)),
                                    nlabels - 1, 1, 478)
    IN IF IsRaise(Theta1) THEN Theta1
       ELSE IF IsRaise(Theta2) THEN Theta2
       ELSE IF IsRaise(thresholds_param) THEN thresholds_param
       ELSE [Theta1 |-> Theta1, Theta2 |-> Theta2,
             thresholds_param |-> thresholds_param]

\* __randInitializeWeights: the random draw is commented out, W is all ones
randInitializeWeights(L_in, L_out) == Ones(L_out, L_in)

\* __convertThresholds without the squaring of the entries after the first
convertThresholdsNoSquare(thresholds_param, nlabels) ==
    LET t == thresholds_param.data
        n == nlabels - 1
    IN [shape |-> <<1, n>>, data |-> [i \in 1..n |-> SumTo(t, i)]]

\* __convertThresholds: row i of tile(v).T * tril(ones) summed along axis 1,
\* where v = (t[0], t[1]^2, t[2]^2, ...)
convertThresholds(thresholds_param, nlabels) ==
    LET t == thresholds_param.data
        n == nlabels - 1
        thresholds_pquad == [i \in 1..Len(t) |-> t[i] * t[i]]
        v == Slice(t, 0, 1) \o Slice(thresholds_pquad, 1, Len(t))
        tril == [i \in 1..n |-> [j \in 1..n |-> IF j <= i THEN 1 ELSE 0]]
        tiledT == [i \in 1..n |-> [j \in 1..n |-> v[j]]]
        prod == [i \in 1..n |-> [j \in 1..n |-> tiledT[i][j] * tril[i][j]]]
    IN [shape |-> <<1, n>>, data |-> [i \in 1..n |-> SumTo(prod[i], n)]]

\* sign (0 or 1) of out[i, j] of the forward pass, lines 610-613: column 1 is
\* a sigmoid, column K is 1 - sigmoid, a middle column j is the difference
\* sigmoid(thresholds[j] - p) - sigmoid(thresholds[j-1] - p), which is 0
\* exactly when the two thresholds are equal
outSign(thr, nlabels, j) ==
    IF j = 1 \/ j = nlabels THEN 1
    ELSE IF thr.data[j] = thr.data[j - 1] THEN 0 ELSE 1

\* positions (row, column) of the ones of Y, np.where(Y == 1)
whereOnes(Y) ==
    IF Len(Y.shape) # 2 THEN {}
    ELSE {<<i, j>> \in (1..Y.shape[1]) \X (1..Y.shape[2]) : At(Y, i, j) = 1}

\* lines 673-675: what each position of the local vector grad is taken from
unrolledGrad(input_layer_size, hidden_layer_size, nlabels) ==
    LET nTheta1 == hidden_layer_size * (input_layer_size + 1)
        nTheta2 == hidden_layer_size
    IN [k \in 1..(nTheta1 + nTheta2 + nlabels - 1) |->
          IF k <= nTheta1 THEN "Theta1_grad"
          ELSE IF k <= nTheta1 + nTheta2 THEN "Theta2_grad"
          ELSE "thresholds_param"]

\* __nnPOMCostFunction on an array X of shape X.shape: the line that raises,
\* or, when the evaluation runs to the return statement, the returned J, the
\* caller's grad after the call and the local vector built on line 673.  The
\* assignment to grad on line 673 rebinds the local name only.
nnPOMCostFunction(nn_params, input_layer_size, hidden_layer_size, nlabels, X, Y) ==
    LET u == unpackParameters(nn_params, input_layer_size, hidden_layer_size, nlabels)
        thr == convertThresholds(u.thresholds_param, nlabels)
        rows == X.shape[1]
        sel == whereOnes(Y)
        yrows == Y.shape[1]
    IN IF IsRaise(u) THEN u
       \* line 626: out[np.where(Y==1)] and math.log of the selection
       ELSE IF \E p \in sel : p[1] > rows THEN Raise("IndexError", 626)
       ELSE IF Cardinality(sel) # 1 THEN Raise("TypeError", 626)
       ELSE IF \E p \in sel : outSign(thr, nlabels, p[2]) = 0
            THEN Raise("ValueError", 626)
       \* line 641: fGradients[:,0] on an array with K-1 columns
       ELSE IF nlabels - 1 = 0 THEN Raise("IndexError", 641)
       \* line 641: errorDer (rows of Y) times the gradient block (rows of X)
       ELSE IF yrows # rows /\ yrows # 1 /\ rows # 1 THEN Raise("ValueError", 641)
       \* line 644: matmul of the 1-d sigma3 with Theta2 of shape (1, H)
       ELSE IF Max2(yrows, rows) # 1 THEN Raise("ValueError", 644)
       \* line 677: J alone is returned; the caller's grad is as it was
       ELSE [J |-> "float",
             grad |-> [k \in 1..Len(nn_params) |-> "unwritten"],
             local_grad |-> unrolledGrad(input_layer_size, hidden_layer_size, nlabels)]

\* outcome of a finished public call
Outcome(op, arg, r, stop) ==
    [op |-> op, arg |-> arg, stop |-> stop,
     raise |-> IF IsRaise(r) THEN r.raise ELSE "none",
     line |-> IF IsRaise(r) THEN r.line ELSE 0,
     ret |-> IF IsRaise(r) THEN None ELSE r]

\* no public call has finished, or a fit is running
NoCall == Outcome("none", None, None, "none")

----------------------------------------------------------------------------
(* State of the estimator *)

\* the five attributes fit assigns on lines 160-164
Fitted == [attrs |-> attrs, theta1 |-> theta1, theta2 |-> theta2,
           thresholds |-> thresholds, num_labels |-> num_labels, m |-> m]

FittedNames == {"theta1", "theta2", "thresholds", "num_labels", "m"}

\* __init__: the hyper-parameters are set, no fitted attribute exists yet
ModelInit ==
    /\ hiddenN \in 1..MaxH
    /\ attrs = {}
    /\ theta1 = NoArray
    /\ theta2 = NoArray
    /\ thresholds = NoArray
    /\ num_labels = 0
    /\ m = 0
    /\ pc = "idle"
    /\ frame = None
    /\ result = NoCall
    /\ again = None
    /\ sets = 0
    /\ optCalls = 0

Init == ModelInit /\ codec = None /\ tt = None /\ fw = None /\ cs = None /\ gs = None

\* input arrays: X is represented by its shape (its entries decide no branch
\* of fit or predict), y by its sequence of labels, taken in ascending order
Inputs == {[shape |-> <<r, c>>] : r \in 1..MaxRows, c \in 1..MaxD}
LabelVectors ==
    {y \in UNION {[1..n -> 1..MaxLabel] : n \in 1..MaxLen} :
        \A i \in 1..(Len(y) - 1) : y[i] <= y[i + 1]}

Range(f) == {f[i] : i \in DOMAIN f}

\* vectors the optimizer may hand to the objective or return: the initial
\* all-ones vector (slope 0) and ramps through negative values and zero
OptVectors(n) == {[i \in 1..n |-> 1 + s * (i - 3)] : s \in 0..MaxSlope}

\* line 115: Y = 1 * (tile(y) == tile(1..K)) when the two shapes broadcast
oneHot(y, nlabels, rows) ==
    LET R == Max2(Len(y), rows)
    IN [shape |-> <<R, nlabels>>,
        data |-> [k \in 1..(R * nlabels) |->
                    LET i == ((k - 1) \div nlabels) + 1
                        j == ((k - 1) % nlabels) + 1
                    IN IF y[IF Len(y) = 1 THEN 1 ELSE i] = j THEN 1 ELSE 0]]

\* line 115 when the shapes do not broadcast and == answers False: 1 * False
scalarZero == [shape |-> <<>>, data |-> <<0>>]

\* predict, line 195: test.shape is a tuple and calling it raises TypeError,
\* whatever the estimator holds; lines 197-208 are never reached
predict(self, test) == Raise("TypeError", 195)

\* lines 126-129: the three tensors flattened in Fortran order, concatenated
pack(Theta1, Theta2, thresholds_param) ==
    FlattenF(Theta1) \o FlattenF(Theta2) \o FlattenF(thresholds_param)

----------------------------------------------------------------------------
(* Public operations *)

\* fit, lines 108-132: no check of X or y is made; Y, the all-ones initial
\* tensors and the packed vector are built and fmin_lbfgs is entered.  When
\* the two tiled arrays of line 115 do not broadcast, == either raises
\* ValueError or answers False, depending on the numpy release.
FitBegin(X, y) ==
    LET input_layer_size == X.shape[2]
        nlabels == Cardinality(Range(y))
        rows == X.shape[1]
        broadcast == Len(y) = rows \/ Len(y) = 1 \/ rows = 1
        Y == IF broadcast THEN oneHot(y, nlabels, rows) ELSE scalarZero
        initial_Theta1 == randInitializeWeights(input_layer_size + 1, hiddenN)
        initial_Theta2 == randInitializeWeights(hiddenN, 1)
        initial_thresholds == randInitializeWeights(nlabels - 1, 1)
        initial_nn_params == pack(initial_Theta1, initial_Theta2, initial_thresholds)
    IN /\ pc = "idle"
       /\ \/ /\ ~broadcast
             /\ result' = Outcome("fit", None, Raise("ValueError", 115), "none")
             /\ optCalls' = 0
             /\ UNCHANGED <<pc, frame>>
          \/ /\ pc' = "opt"
             /\ frame' = [X |-> X, y |-> y, Y |-> Y,
                          input_layer_size |-> input_layer_size,
                          num_labels |-> nlabels, m |-> rows,
                          initial_nn_params |-> initial_nn_params,
                          evals |-> 0]
             /\ optCalls' = 1
             /\ result' = NoCall
       /\ again' = None
       /\ UNCHANGED <<hiddenN, attrs, theta1, theta2, thresholds, num_labels, m,
                      sets, codec, tt, fw, cs, gs>>

\* an evaluation that stores the hidden weights it was handed
OptEvalWrites(x) ==
    LET J == nnPOMCostFunction(x, frame.input_layer_size, hiddenN,
                               frame.num_labels, frame.X, frame.Y)
    IN /\ pc = "opt"
       /\ frame.evals < MaxEvals
       /\ \/ /\ IsRaise(J)
             /\ pc' = "idle"
             /\ frame' = None
             /\ result' = Outcome("fit", None, J, "none")
             /\ UNCHANGED <<attrs, theta1>>
          \/ /\ frame' = [frame EXCEPT !.evals = @ + 1]
             /\ theta1' = [shape |-> <<1, Len(x)>>, data |-> x]
             /\ attrs' = attrs \cup {"theta1"}
             /\ UNCHANGED <<pc, result>>
       /\ UNCHANGED <<hiddenN, theta2, thresholds, num_labels, m,
                      again, sets, optCalls, codec, tt, fw, cs, gs>>

\* the optimizer evaluates the objective f = __nnPOMCostFunction at x.  An
\* exception of the objective either propagates out of fmin_lbfgs and fit,
\* or is dropped inside the optimizer's C callback, which then goes on: the
\* optimizer is an external library and either is possible.
OptEval(x) ==
    LET J == nnPOMCostFunction(x, frame.input_layer_size, hiddenN,
                               frame.num_labels, frame.X, frame.Y)
    IN /\ pc = "opt"
       /\ frame.evals < MaxEvals
       /\ \/ /\ IsRaise(J)
             /\ pc' = "idle"
             /\ frame' = None
             /\ result' = Outcome("fit", None, J, "none")
          \/ /\ frame' = [frame EXCEPT !.evals = @ + 1]
             /\ UNCHANGED <<pc, result>>
       /\ UNCHANGED <<hiddenN, attrs, theta1, theta2, thresholds, num_labels, m,
                      again, sets, optCalls, codec, tt, fw, cs, gs>>

\* the optimizer gives up with an error of its own
OptRaise ==
    /\ pc = "opt"
    /\ pc' = "idle"
    /\ frame' = None
    /\ result' = Outcome("fit", None, Raise("LBFGSError", 132), "none")
    /\ UNCHANGED <<hiddenN, attrs, theta1, theta2, thresholds, num_labels, m,
                   again, sets, optCalls, codec, tt, fw, cs, gs>>

\* fit, lines 132-168: fmin_lbfgs returns nn_params (stop says why it
\* stopped); the vector is unpacked, the five attributes are assigned and
\* predict is run on the training inputs
OptReturn(nn_params, stop) ==
    LET u == unpackParameters(nn_params, frame.input_layer_size, hiddenN,
                              frame.num_labels)
        self == [theta1 |-> u.Theta1, theta2 |-> u.Theta2,
                 thresholds |-> convertThresholds(u.thresholds_param, frame.num_labels),
                 num_labels |-> frame.num_labels, m |-> frame.m,
                 attrs |-> FittedNames]
    IN /\ pc = "opt"
       /\ pc' = "idle"
       /\ frame' = None
       /\ IF IsRaise(u)
          THEN /\ result' = Outcome("fit", None, u, stop)
               /\ UNCHANGED <<attrs, theta1, theta2, thresholds, num_labels, m>>
          ELSE /\ attrs' = FittedNames
               /\ theta1' = self.theta1
               /\ theta2' = self.theta2
               /\ thresholds' = self.thresholds
               /\ num_labels' = self.num_labels
               /\ m' = self.m
               /\ result' = Outcome("fit", None, predict(self, frame.X), stop)
       /\ UNCHANGED <<hiddenN, again, sets, optCalls, codec, tt, fw, cs, gs>>

\* predict(test): reads the estimator, assigns nothing
Predict(test) ==
    /\ pc = "idle"
    /\ result' = Outcome("predict", test, predict(Fitted, test), "none")
    /\ again' = IF result.op = "predict" /\ result.arg = test
                THEN [raise |-> result.raise, ret |-> result.ret]
                ELSE None
    /\ UNCHANGED <<hiddenN, attrs, theta1, theta2, thresholds, num_labels, m, pc,
                   frame, sets, optCalls, codec, tt, fw, cs, gs>>

\* arguments handed to the setters
SetterArrays == {Ones(1, 2)}
SetterCounts == {2}

\* setHiddenN
SetHiddenN(h) ==
    /\ pc = "idle"
    /\ sets < MaxSets
    /\ sets' = sets + 1
    /\ again' = None
    /\ hiddenN' = h
    /\ result' = Outcome("setHiddenN", None, None, "none")
    /\ UNCHANGED <<attrs, theta1, theta2, thresholds, num_labels, m, pc, frame,
                   optCalls, codec, tt, fw, cs, gs>>

\* setTheta1
\* setTheta1 that overwrites the output weights along with the hidden ones
SetTheta1Both(a) ==
    /\ pc = "idle"
    /\ sets < MaxSets
    /\ sets' = sets + 1
    /\ again' = None
    /\ theta1' = a
    /\ theta2' = a
    /\ attrs' = attrs \cup {"theta1", "theta2"}
    /\ result' = Outcome("setTheta1", None, None, "none")
    /\ UNCHANGED <<hiddenN, thresholds, num_labels, m, pc, frame,
                   optCalls, codec, tt, fw, cs, gs>>

\* setTheta1, lines 322-331
SetTheta1(a) ==
    /\ pc = "idle"
    /\ sets < MaxSets
    /\ sets' = sets + 1
    /\ again' = None
    /\ theta1' = a
    /\ attrs' = attrs \cup {"theta1"}
    /\ result' = Outcome("setTheta1", None, None, "none")
    /\ UNCHANGED <<hiddenN, theta2, thresholds, num_labels, m, pc, frame,
                   optCalls, codec, tt, fw, cs, gs>>

\* setTheta2
SetTheta2(a) ==
    /\ pc = "idle"
    /\ sets < MaxSets
    /\ sets' = sets + 1
    /\ again' = None
    /\ theta2' = a
    /\ attrs' = attrs \cup {"theta2"}
    /\ result' = Outcome("setTheta2", None, None, "none")
    /\ UNCHANGED <<hiddenN, theta1, thresholds, num_labels, m, pc, frame,
                   optCalls, codec, tt, fw, cs, gs>>

\* setThresholds
SetThresholds(a) ==
    /\ pc = "idle"
    /\ sets < MaxSets
    /\ sets' = sets + 1
    /\ again' = None
    /\ thresholds' = a
    /\ attrs' = attrs \cup {"thresholds"}
    /\ result' = Outcome("setThresholds", None, None, "none")
    /\ UNCHANGED <<hiddenN, theta1, theta2, num_labels, m, pc, frame,
                   optCalls, codec, tt, fw, cs, gs>>

\* setNum_labels
SetNum_labels(k) ==
    /\ pc = "idle"
    /\ sets < MaxSets
    /\ sets' = sets + 1
    /\ again' = None
    /\ num_labels' = k
    /\ attrs' = attrs \cup {"num_labels"}
    /\ result' = Outcome("setNum_labels", None, None, "none")
    /\ UNCHANGED <<hiddenN, theta1, theta2, thresholds, m, pc, frame,
                   optCalls, codec, tt, fw, cs, gs>>

\* setM
SetM(k) ==
    /\ pc = "idle"
    /\ sets < MaxSets
    /\ sets' = sets + 1
    /\ again' = None
    /\ m' = k
    /\ attrs' = attrs \cup {"m"}
    /\ result' = Outcome("setM", None, None, "none")
    /\ UNCHANGED <<hiddenN, theta1, theta2, thresholds, num_labels, pc, frame,
                   optCalls, codec, tt, fw, cs, gs>>

\* length of the flat vector of the running fit
FrameLen == Len(frame.initial_nn_params)

Next ==
    \/ \E X \in Inputs, y \in LabelVectors : FitBegin(X, y)
    \/ pc = "opt" /\ \E x \in OptVectors(FrameLen) : OptEval(x)
    \/ OptRaise
    \/ pc = "opt" /\ \E v \in OptVectors(FrameLen), stop \in {"converged", "budget"} :
                         OptReturn(v, stop)
    \/ \E test \in Inputs : Predict(test)
    \/ \E h \in 1..MaxH : SetHiddenN(h)
    \/ \E a \in SetterArrays : SetTheta1(a)
    \/ \E a \in SetterArrays : SetTheta2(a)
    \/ \E a \in SetterArrays : SetThresholds(a)
    \/ \E k \in SetterCounts : SetNum_labels(k)
    \/ \E k \in SetterCounts : SetM(k)

Spec == Init /\ [][Next]_vars

----------------------------------------------------------------------------
(* Parameter Codec round trip: pack as fit does, then __unpackParameters *)

\* all arrays of shape (r, c) with entries in 0..MaxCodecVal
Arrays(r, c) ==
    {[shape |-> <<r, c>>, data |-> d] : d \in [1..(r * c) -> 0..MaxCodecVal]}

CodecInit ==
    /\ ModelInit
    /\ tt = None /\ fw = None /\ cs = None /\ gs = None
    /\ \E D \in 1..MaxD, K \in 2..MaxLabel :
         \E W1 \in Arrays(hiddenN, D + 1), W2 \in Arrays(1, hiddenN),
            T \in Arrays(1, K - 1) :
           codec = [pc |-> "in", D |-> D, K |-> K, W1 |-> W1, W2 |-> W2,
                    T |-> T, flat |-> <<>>, out |-> None]

CodecPack ==
    /\ codec.pc = "in"
    /\ codec' = [codec EXCEPT !.pc = "packed",
                              !.flat = pack(codec.W1, codec.W2, codec.T)]
    /\ UNCHANGED <<modelVars, tt, fw, cs, gs>>

CodecUnpack ==
    /\ codec.pc = "packed"
    /\ codec' = [codec EXCEPT !.pc = "out",
                              !.out = unpackParameters(codec.flat, codec.D,
                                                       hiddenN, codec.K)]
    /\ UNCHANGED <<modelVars, tt, fw, cs, gs>>

CodecNext == CodecPack \/ CodecUnpack

CodecSpec == CodecInit /\ [][CodecNext]_vars

----------------------------------------------------------------------------
(* Threshold Transform on raw parameter vectors *)

ThreshInit ==
    /\ ModelInit
    /\ codec = None /\ fw = None /\ cs = None /\ gs = None
    /\ \E K \in 2..MaxK :
         \E t \in [1..(K - 1) -> (-MaxT)..MaxT] :
           tt = [pc |-> "in", K |-> K,
                 thresholds_param |-> [shape |-> <<K - 1, 1>>, data |-> t],
                 out |-> None]

ThreshConvert ==
    /\ tt.pc = "in"
    /\ tt' = [tt EXCEPT !.pc = "out",
                        !.out = convertThresholds(tt.thresholds_param, tt.K)]
    /\ UNCHANGED <<modelVars, codec, fw, cs, gs>>

ThreshNext == ThreshConvert

ThreshSpec == ThreshInit /\ [][ThreshNext]_vars

----------------------------------------------------------------------------
(* Parameter Codec: unpacking vectors of any length *)

MaxExtra == 2       \* entries a vector may have beyond the expected length

\* H(D+1) + H + (K-1), the length of a packed parameter vector
PackedLen(input_layer_size, hidden_layer_size, nlabels) ==
    hidden_layer_size * (input_layer_size + 1) + hidden_layer_size + nlabels - 1

UnpackInit ==
    /\ ModelInit
    /\ tt = None /\ fw = None /\ cs = None /\ gs = None
    /\ \E D \in 1..MaxD, K \in 1..MaxLabel :
         \E L \in 0..(PackedLen(D, hiddenN, K) + MaxExtra), v \in 0..MaxCodecVal :
           codec = [pc |-> "flat", D |-> D, K |-> K,
                    flat |-> [i \in 1..L |-> i * v], out |-> None]

\* __unpackParameters(nn_params, input_layer_size, hidden_layer_size, num_labels)
UnpackCall ==
    /\ codec.pc = "flat"
    /\ codec' = [codec EXCEPT !.pc = "unpacked",
                              !.out = unpackParameters(codec.flat, codec.D,
                                                       hiddenN, codec.K)]
    /\ UNCHANGED <<modelVars, tt, fw, cs, gs>>

UnpackNext == UnpackCall

UnpackSpec == UnpackInit /\ [][UnpackNext]_vars

----------------------------------------------------------------------------
(* Forward Model: thresholds and projections to class probabilities *)

MaxP == 1           \* projections of the harness range over -MaxP..MaxP

\* 1.0 in the fixed-point representation of probabilities
Scale == 1000000

\* Scale / (1 + exp(-z)) rounded, for z = 0..14
SigmoidTable == <<500000, 731059, 880797, 952574, 982014, 993307, 997527,
                  999089, 999665, 999877, 999955, 999983, 999994, 999998,
                  999999>>

RECURSIVE sigmoid(_)
\* 1.0 / (1.0 + np.exp(-z)): below 1.0 for every z a float holds here
sigmoid(z) ==
    IF z < 0 THEN Scale - sigmoid(-z)
    ELSE IF z + 1 <= Len(SigmoidTable) THEN SigmoidTable[z + 1]
    ELSE SigmoidTable[Len(SigmoidTable)]

\* the array of shape (r, c) whose entry (i, j) is F[i][j]
MkArray(r, c, F) ==
    [shape |-> <<r, c>>,
     data |-> [k \in 1..(r * c) |-> F[((k - 1) \div c) + 1][((k - 1) % c) + 1]]]

\* lines 610-613 with the differences taken in place from left to right,
\* each one against the already replaced column before it
costForwardInPlace(thr, proj, nlabels) ==
    LET rows == Len(proj)
        a3(i, j) == IF j = nlabels THEN Scale
                    ELSE sigmoid(thr.data[j] - proj[i])
        row(i) == LET R[j \in 1..nlabels] ==
                          IF j = 1 THEN a3(i, 1) ELSE a3(i, j) - R[j - 1]
                  IN R
    IN MkArray(rows, nlabels, [i \in 1..rows |-> row(i)])

\* __nnPOMCostFunction, lines 610-613: z3 = thresholds - projection, a3T its
\* sigmoid, a3 = a3T with a column of ones appended, h = the first column of
\* a3 followed by the differences of neighbouring columns.  proj[i] stands
\* for the projection np.matmul(a2, Theta2.T)[i].
costForward(thr, proj, nlabels) ==
    LET rows == Len(proj)
        z3 == [i \in 1..rows |-> [j \in 1..(nlabels - 1) |-> thr.data[j] - proj[i]]]
        a3T == [i \in 1..rows |-> [j \in 1..(nlabels - 1) |-> sigmoid(z3[i][j])]]
        a3 == [i \in 1..rows |-> a3T[i] \o <<Scale>>]
        h == [i \in 1..rows |->
                <<a3[i][1]>> \o [j \in 1..(nlabels - 1) |-> a3[i][j + 1] - a3[i][j]]]
    IN MkArray(rows, nlabels, h)

\* row i of a 2-d array
Row(A, i) == [j \in 1..A.shape[2] |-> At(A, i, j)]

ForwardInit ==
    /\ ModelInit
    /\ codec = None /\ tt = None /\ cs = None /\ gs = None
    /\ \E K \in 2..MaxK, rows \in 1..MaxRows :
         \E t \in [1..(K - 1) -> (-MaxT)..MaxT],
            proj \in [1..rows -> (-MaxP)..MaxP] :
           fw = [pc |-> "in", K |-> K, proj |-> proj,
                 thresholds_param |-> [shape |-> <<K - 1, 1>>, data |-> t],
                 thr |-> None, h |-> None, pred |-> None]

\* line 600 with the raw parameters taken as the thresholds
FwConvertRaw ==
    /\ fw.pc = "in"
    /\ fw' = [fw EXCEPT !.pc = "thr", !.thr = fw.thresholds_param]
    /\ UNCHANGED <<modelVars, codec, tt, cs, gs>>

\* line 600: thresholds = __convertThresholds(thresholds_param, num_labels)
FwConvert ==
    /\ fw.pc = "in"
    /\ fw' = [fw EXCEPT !.pc = "thr",
                        !.thr = convertThresholds(fw.thresholds_param, fw.K)]
    /\ UNCHANGED <<modelVars, codec, tt, cs, gs>>

\* lines 610-616: out = h
FwForward ==
    /\ fw.pc = "thr"
    /\ fw' = [fw EXCEPT !.pc = "h",
                        !.h = costForward(fw.thr, fw.proj, fw.K)]
    /\ UNCHANGED <<modelVars, codec, tt, cs, gs>>

\* predict on an estimator holding these thresholds, on an input with one
\* row per projection
FwPredict ==
    LET self == [attrs |-> FittedNames, theta1 |-> Ones(hiddenN, 2),
                 theta2 |-> Ones(1, hiddenN), thresholds |-> fw.thr,
                 num_labels |-> fw.K, m |-> Len(fw.proj)]
        test == [shape |-> <<Len(fw.proj), 1>>]
    IN /\ fw.pc = "h"
       /\ fw' = [fw EXCEPT !.pc = "pred", !.pred = predict(self, test)]
       /\ UNCHANGED <<modelVars, codec, tt, cs, gs>>

ForwardNext == FwConvert \/ FwForward \/ FwPredict

ForwardSpec == ForwardInit /\ [][ForwardNext]_vars

----------------------------------------------------------------------------
(* Cost & Gradient Engine: one evaluation of the objective *)

\* label sequences of n samples over the classes 1..K
CostLabels(n, K) == [1..n -> 1..K]

CostInit ==
    /\ ModelInit
    /\ codec = None /\ tt = None /\ fw = None /\ gs = None
    /\ \E D \in 1..MaxD, rows \in 1..MaxRows, K \in 1..MaxK :
         \E y \in CostLabels(rows, K),
            x \in OptVectors(hiddenN * (D + 1) + hiddenN + K - 1) :
           cs = [pc |-> "in", nn_params |-> x, input_layer_size |-> D,
                 num_labels |-> K, X |-> [shape |-> <<rows, D>>],
                 Y |-> oneHot(y, K, rows), out |-> None]

\* one call f(x, g, *args) of the objective by the optimizer
CostEval ==
    /\ cs.pc = "in"
    /\ cs' = [cs EXCEPT !.pc = "done",
                        !.out = nnPOMCostFunction(cs.nn_params, cs.input_layer_size,
                                                  hiddenN, cs.num_labels, cs.X, cs.Y)]
    /\ UNCHANGED <<modelVars, codec, tt, fw, gs>>

CostNext == CostEval

CostSpec == CostInit /\ [][CostNext]_vars

----------------------------------------------------------------------------
(* Utilities: _check_params and _get_optimal_estimator *)

MaxParams == 2      \* parameters named by a configuration
MaxCand == 2        \* candidate values in one parameter's list
MaxSeed == 1        \* seeds range over 0..MaxSeed

\* names a configuration may give its parameters
ParamPool == <<"C", "gamma", "tol", "degree">>

\* values of a configuration's parameters: a bare scalar, a bare dict, a list
Scalar(n) == [kind |-> "scalar", val |-> n, items |-> <<>>]
DictValue == [kind |-> "dict", val |-> 0, items |-> <<>>]
List(items) == [kind |-> "list", val |-> 0, items |-> items]

\* isinstance(p, list)
IsList(p) == p.kind = "list"

\* isinstance(p, dict)
IsDict(p) == p.kind = "dict"

\* the values a configuration gives one parameter: a scalar, a dict, a list
\* of 0..MaxCand scalars, a list holding one list
ConfValues ==
    {Scalar(1), DictValue}
        \cup {List([i \in 1..n |-> Scalar(i)]) : n \in 0..MaxCand}
        \cup {List(<<List([i \in 1..MaxCand |-> Scalar(i)])>>)}

\* _check_params, lines 452-466, that also wraps bare dicts
checkParamsWrapDict(parameters, random_seed) ==
    LET names == DOMAIN parameters \cup {"random_state"}
        seeded == [n \in names |->
                     IF n = "random_state" THEN List(<<Scalar(random_seed)>>)
                     ELSE parameters[n]]
    IN IF \A n \in names : ~IsList(seeded[n]) \/ Len(seeded[n].items) = 1
       THEN [n \in names |->
               IF IsList(seeded[n]) THEN seeded[n].items[1] ELSE seeded[n]]
       ELSE [n \in names |->
               IF ~IsList(seeded[n]) THEN List(<<seeded[n]>>) ELSE seeded[n]]

\* _check_params on one configuration that names no inner classifier
\* ('parameters' is not among its keys): line 452 sets random_state to
\* [random_seed]; lines 454-466 pop the lonely values out of their lists
\* when no list has a length other than one, and otherwise enclose in a list
\* every value that is neither a list nor a dict
checkParams(parameters, random_seed) ==
    LET names == DOMAIN parameters \cup {"random_state"}
        seeded == [n \in names |->
                     IF n = "random_state" THEN List(<<Scalar(random_seed)>>)
                     ELSE parameters[n]]
    IN IF \A n \in names : ~IsList(seeded[n]) \/ Len(seeded[n].items) = 1
       THEN [n \in names |->
               IF IsList(seeded[n]) THEN seeded[n].items[1] ELSE seeded[n]]
       ELSE [n \in names |->
               IF ~IsList(seeded[n]) /\ ~IsDict(seeded[n])
               THEN List(<<seeded[n]>>) ELSE seeded[n]]

\* _get_optimal_estimator, lines 510-540: without a list among the values
\* the classifier is built from them and fitted once; otherwise the metric
\* is looked up (AttributeError if there is none of that name) and
\* GridSearchCV is built on the parameters and fitted
getOptimalEstimator(parameters, metric) ==
    IF \A n \in DOMAIN parameters : ~IsList(parameters[n])
    THEN [path |-> "direct", raise |-> "none", line |-> 0,
          kwargs |-> parameters, fits |-> 1, searches |-> 0]
    ELSE IF metric = "unknown"
    THEN [path |-> "grid", raise |-> "AttributeError", line |-> 526,
          kwargs |-> None, fits |-> 0, searches |-> 0]
    ELSE [path |-> "grid", raise |-> "none", line |-> 0,
          kwargs |-> None, fits |-> 0, searches |-> 1]

GridInit ==
    /\ ModelInit
    /\ codec = None /\ tt = None /\ fw = None /\ cs = None
    /\ \E n \in 1..MaxParams, seed \in 0..MaxSeed, metric \in {"ccr", "unknown"} :
         \E conf \in [{ParamPool[i] : i \in 1..n} -> ConfValues] :
           gs = [pc |-> "conf", conf |-> conf, random_seed |-> seed,
                 cv_metric |-> metric, parameters |-> conf, out |-> None]

\* run_experiment, line 91: self._check_params()
GsCheckParams ==
    /\ gs.pc = "conf"
    /\ gs' = [gs EXCEPT !.pc = "checked",
                        !.parameters = checkParams(gs.conf, gs.random_seed)]
    /\ UNCHANGED <<modelVars, codec, tt, fw, cs>>

\* run_experiment, line 130: self._get_optimal_estimator(...) on the
\* checked parameters
GsGetOptimal ==
    /\ gs.pc = "checked"
    /\ gs' = [gs EXCEPT !.pc = "done",
                        !.out = getOptimalEstimator(gs.parameters, gs.cv_metric)]
    /\ UNCHANGED <<modelVars, codec, tt, fw, cs>>

GridNext == GsCheckParams \/ GsGetOptimal

GridSpec == GridInit /\ [][GridNext]_vars

----------------------------------------------------------------------------
(* Properties *)

\* no attribute of lines 160-164 has ever been assigned
Unfitted == attrs = {}

\* all five attributes of lines 160-164 are assigned
AllAssigned == attrs = FittedNames

\* exception classes that report a missing fit, and a shape mismatch
NotFittedErrors == {"NotFittedError", "AttributeError"}
DimensionErrors == {"ValueError"}

\* y is a label vector fit may be given: one label per row of X, at least two
\* distinct labels, and these are exactly 1..K
ValidLabels(X, y) ==
    /\ Len(y) = X.shape[1]
    /\ Cardinality(Range(y)) >= 2
    /\ Range(y) = 1..Cardinality(Range(y))

\* the training input of the last stored fit, from what that fit stored
StoredX == [shape |-> <<m, theta1.shape[2] - 1>>]

\* C1: a predict call on an estimator that holds no fitted attribute fails
\* with a not-fitted error and returns nothing.
C1_PredictBeforeFit ==
    (result.op = "predict" /\ Unfitted) =>
        (result.raise \in NotFittedErrors /\ result.ret = None)

\* C2: a fit call that ends with an exception leaves theta1, theta2,
\* thresholds, num_labels and m as they were.
C2_FitAllOrNothing ==
    [][(result'.op = "fit" /\ result'.raise # "none") => Fitted' = Fitted]_vars

C4_WidthMismatch ==
    [][(result'.op = "predict" /\ AllAssigned
          /\ result'.arg.shape[2] + 1 # theta1.shape[2]) =>
          (result'.raise \in DimensionErrors /\ Fitted' = Fitted)]_vars

\* C5: the optimizer is entered only for a valid label vector; fit on a
\* single label, on labels that are not 1..K, or on a y whose length is not
\* the number of rows of X, stops before fmin_lbfgs.
C5_InvalidLabelsRejected ==
    pc = "opt" => ValidLabels(frame.X, frame.y)

\* C6: a fit whose optimizer stopped at the iteration budget has called the
\* optimizer once and returns normally.
C6_BudgetAccepted ==
    (result.op = "fit" /\ result.stop = "budget") =>
        (optCalls = 1 /\ result.raise = "none")

\* C7: the second of two consecutive predict calls with the same input on a
\* fitted estimator returns what the first returned, and changes no fitted
\* attribute.
C7_PredictIdempotent ==
    [][(again' # None /\ AllAssigned) =>
          /\ Fitted' = Fitted
          /\ again'.raise = "none"
          /\ result'.raise = "none"
          /\ result'.ret = again'.ret]_vars

C9_CodecRoundTrip ==
    codec.pc = "out" =>
        /\ ~IsRaise(codec.out)
        /\ \A i \in 1..hiddenN, j \in 1..(codec.D + 1) :
              At(codec.out.Theta1, i, j) = At(codec.W1, i, j)
        /\ \A j \in 1..hiddenN :
              At(codec.out.Theta2, 1, j) = At(codec.W2, 1, j)
        /\ \A j \in 1..(codec.K - 1) :
              At(codec.out.thresholds_param, j, 1) = At(codec.T, 1, j)

\* C10: the Threshold Transform of K-1 raw parameters of any sign has K-1
\* entries and never decreases from one entry to the next.
C10_ThresholdsMonotone ==
    tt.pc = "out" =>
        /\ tt.out.shape = <<1, tt.K - 1>>
        /\ Len(tt.out.data) = tt.K - 1
        /\ \A j \in 2..(tt.K - 1) : tt.out.data[j] >= tt.out.data[j - 1]

\* C10 witness: a raw vector with a negative entry after the first has been
\* transformed, and the threshold at that entry lies above the one before
C10_Witness ==
    /\ tt.pc = "out"
    /\ \E j \in 2..(tt.K - 1) :
          /\ tt.thresholds_param.data[j] < 0
          /\ tt.out.data[j] > tt.out.data[j - 1]

\* the thresholds grow strictly from each entry to the next
StrictlyIncreasing(thr) ==
    \A j \in 2..Len(thr.data) : thr.data[j] > thr.data[j - 1]

\* C11: with strictly increasing thresholds the K class probabilities of
\* every row add up to 1.
C11_RowsSumToOne ==
    (fw.pc \in {"h", "pred"} /\ StrictlyIncreasing(fw.thr)) =>
        /\ fw.h.shape = <<Len(fw.proj), fw.K>>
        /\ \A i \in 1..Len(fw.proj) : SumTo(Row(fw.h, i), fw.K) = Scale

\* C11 witness: a forward pass over two rows and three or more classes with
\* strictly increasing thresholds and a probability strictly inside (0, 1)
C11_Witness ==
    /\ fw.pc = "h"
    /\ fw.K >= 3
    /\ Len(fw.proj) = 2
    /\ StrictlyIncreasing(fw.thr)
    /\ At(fw.h, 2, 2) > 0
    /\ At(fw.h, 2, 2) < Scale

\* the stored model parameters
ParamNames == {"theta1", "theta2", "thresholds"}

\* this step changes the stored hidden weights
ChangesTheta1 == theta1' # theta1 \/ ("theta1" \in attrs') # ("theta1" \in attrs)

\* this step changes the stored output weights
ChangesTheta2 == theta2' # theta2 \/ ("theta2" \in attrs') # ("theta2" \in attrs)

\* this step changes the stored thresholds
ChangesThresholds ==
    thresholds' # thresholds \/ ("thresholds" \in attrs') # ("thresholds" \in attrs)

\* this step changes one of the stored model parameters
ChangesParams == ChangesTheta1 \/ ChangesTheta2 \/ ChangesThresholds

\* this step is fit storing what the optimizer returned (lines 160-164)
FitStores == pc = "opt" /\ pc' = "idle" /\ result'.op = "fit" /\ result'.stop # "none"

GradLayout(input_layer_size, hidden_layer_size, nlabels) ==
    [k \in 1..(hidden_layer_size * (input_layer_size + 1) + hidden_layer_size
               + nlabels - 1) |->
       IF k <= hidden_layer_size * (input_layer_size + 1) THEN "Theta1_grad"
       ELSE IF k <= hidden_layer_size * (input_layer_size + 2) THEN "Theta2_grad"
       ELSE "Threshold_grad"]

\* C13: a cost evaluation that completes hands back the scalar cost and the
\* flat gradient, laid out as the parameter vector is: the gradient of W1,
\* of W2, then of the raw threshold parameters.
C13_GradientHandedBack ==
    (cs.pc = "done" /\ ~IsRaise(cs.out)) =>
        /\ cs.out.J = "float"
        /\ cs.out.grad = GradLayout(cs.input_layer_size, hiddenN, cs.num_labels)

\* t[0] + t[1]^2 + ... + t[j]^2, positions counted from 1 here
CumulativeSquares(t, j) ==
    t[1] + SumTo([i \in 1..j |-> IF i = 1 THEN 0 ELSE t[i] * t[i]], j)

\* C14: thresholds[0] = t[0] and thresholds[j] = t[0] + t[1]^2 + ... + t[j]^2;
\* for K = 2 there is the single threshold t[0] and the probability layer
\* has exactly two columns.
C14_ThresholdFormula ==
    /\ fw.pc # "in" =>
         /\ fw.thr.shape = <<1, fw.K - 1>>
         /\ \A j \in 1..(fw.K - 1) :
              fw.thr.data[j] = CumulativeSquares(fw.thresholds_param.data, j)
    /\ (fw.pc \in {"h", "pred"} /\ fw.K = 2) =>
         /\ fw.thr.data = <<fw.thresholds_param.data[1]>>
         /\ fw.h.shape[2] = 2

\* C14 witness: three classes, a negative second raw parameter whose square
\* is added to a non-zero first one
C14_Witness ==
    /\ fw.pc = "h"
    /\ fw.K = 3
    /\ fw.thresholds_param.data = <<-1, -2>>
    /\ fw.thr.data = <<-1, 3>>

\* the lowest position at which the sequence row takes its largest value
ArgMaxFirst(row) ==
    CHOOSE j \in 1..Len(row) :
        /\ \A k \in 1..Len(row) : row[k] <= row[j]
        /\ \A k \in 1..(j - 1) : row[k] < row[j]

\* C15: predict returns one label per sample, the class whose probability in
\* that sample's row is the largest, the lowest such class on a tie.
C15_PredictArgmax ==
    fw.pc = "pred" =>
        /\ ~IsRaise(fw.pred)
        /\ fw.pred = [i \in 1..Len(fw.proj) |-> ArgMaxFirst(Row(fw.h, i))]

\* C16: a cost evaluation on one-hot labels of two or more classes never
\* fails, whatever the number of samples: the probabilities are floored at
\* a small epsilon before the logarithm and the division.
C16_CostNeverFails ==
    (cs.pc = "done" /\ cs.num_labels >= 2) => ~IsRaise(cs.out)

\* C17: unpacking a flat vector whose length is not H(D+1) + H + (K-1),
\* shorter or longer, always fails with an error.
C17_WrongLengthFails ==
    (codec.pc = "unpacked"
       /\ Len(codec.flat) # PackedLen(codec.D, hiddenN, codec.K)) =>
        /\ IsRaise(codec.out)
        /\ codec.out.raise = "ValueError"

\* C17 witness: a vector longer than expected has been rejected on the
\* reshape of its last slice
C17_Witness ==
    /\ codec.pc = "unpacked"
    /\ codec.K >= 2
    /\ Len(codec.flat) > PackedLen(codec.D, hiddenN, codec.K)
    /\ IsRaise(codec.out)
    /\ codec.out.line = 478

\* the stored fitted state
StoredState == <<attrs, theta1, theta2, thresholds, num_labels, m>>

\* the fitted state after the step is what fit is to store for the vector v
\* returned by the optimizer
StoredFrom(v) ==
    LET H == hiddenN
        D == frame.input_layer_size
        K == frame.num_labels
        raw == SubSeq(v, H * (D + 2) + 1, Len(v))
    IN /\ attrs' = FittedNames
       /\ theta1' = [shape |-> <<H, D + 1>>, data |-> SubSeq(v, 1, H * (D + 1))]
       /\ theta2' = [shape |-> <<1, H>>,
                     data |-> SubSeq(v, H * (D + 1) + 1, H * (D + 2))]
       /\ thresholds' = [shape |-> <<1, K - 1>>,
                         data |-> [j \in 1..(K - 1) |-> CumulativeSquares(raw, j)]]
       /\ num_labels' = K
       /\ m' = frame.m

\* C18: within one fit the stored fitted state is not written while the
\* optimizer runs; it is written only once the optimizer has returned, and
\* then holds W1 and W2 cut from the returned vector, the Threshold
\* Transform of the returned raw thresholds, the class count and the number
\* of training samples.
C18_StoreAfterOptimizer ==
    [][/\ pc' = "opt" => StoredState' = StoredState
       /\ (pc = "opt" /\ StoredState' # StoredState) =>
            /\ pc' = "idle"
            /\ result'.op = "fit"
            /\ result'.stop \in {"converged", "budget"}
            /\ \E v \in OptVectors(FrameLen) : StoredFrom(v)]_vars

\* C18 witness: a fit whose optimizer returned has stored three or more
\* classes' thresholds, the sample count and the class count
C18_Witness ==
    /\ result.op = "fit"
    /\ result.stop = "converged"
    /\ AllAssigned
    /\ num_labels = 3
    /\ m = 2
    /\ thresholds = [shape |-> <<1, 2>>, data |-> <<1, 2>>]

\* C19: the forward pass of the cost function and the forward pass of
\* predict are the same function: on the same parameters and inputs predict
\* computes the probability matrix the cost function computes.
C19_SameForward ==
    fw.pc = "pred" =>
        /\ ~IsRaise(fw.pred)
        /\ fw.pred.P = fw.h

\* the number of candidate values a configuration gives for a parameter
Candidates(p) == IF IsList(p) THEN Len(p.items) ELSE 1

\* the parameters as _check_params sees them: the configuration's own and
\* random_state with its one seed
Seeded ==
    [n \in DOMAIN gs.conf \cup {"random_state"} |->
       IF n = "random_state" THEN List(<<Scalar(gs.random_seed)>>) ELSE gs.conf[n]]

\* the one value of a parameter given bare or as a one-element list
Unwrapped(p) == IF IsList(p) THEN p.items[1] ELSE p

====
